---- MODULE Spec2Model ----
(***************************************************************************)
(* Registration required-fields resolver of                                *)
(* openedx/core/djangoapps/user_authn/api/required_fields.py               *)
(* (RequiredFieldsView) together with the handler table of form_fields.py. *)
(*                                                                         *)
(* The three configuration values EXTRA_FIELDS, REGISTRATION_FIELD_ORDER   *)
(* and REGISTRATION_EXTRA_FIELDS are attributes of the class: one list or  *)
(* dict object each, shared by every view instance of the process.  A view *)
(* instance is built per request (__init__) and then serves it (get).      *)
(***************************************************************************)
EXTENDS Integers, Sequences, FiniteSets, TLC

(***************************************************************************)
(* Python values                                                           *)
(***************************************************************************)

\* Python's None (the result of dict.get on a missing key).
None == "None"

\* The code points of a field name; Python compares str values by code point.
Chars(n) ==
    CASE n = "city" -> <<99, 105, 116, 121>>
      [] n = "company" -> <<99, 111, 109, 112, 97, 110, 121>>
      [] n = "confirm_email" -> <<99, 111, 110, 102, 105, 114, 109, 95, 101, 109, 97, 105, 108>>
      [] n = "country" -> <<99, 111, 117, 110, 116, 114, 121>>
      [] n = "email" -> <<101, 109, 97, 105, 108>>
      [] n = "first_name" -> <<102, 105, 114, 115, 116, 95, 110, 97, 109, 101>>
      [] n = "gender" -> <<103, 101, 110, 100, 101, 114>>
      [] n = "goals" -> <<103, 111, 97, 108, 115>>
      [] n = "honor_code" -> <<104, 111, 110, 111, 114, 95, 99, 111, 100, 101>>
      [] n = "job_title" -> <<106, 111, 98, 95, 116, 105, 116, 108, 101>>
      [] n = "last_name" -> <<108, 97, 115, 116, 95, 110, 97, 109, 101>>
      [] n = "level_of_education" -> <<108, 101, 118, 101, 108, 95, 111, 102, 95, 101, 100, 117, 99, 97, 116, 105, 111, 110>>
      [] n = "mailing_address" -> <<109, 97, 105, 108, 105, 110, 103, 95, 97, 100, 100, 114, 101, 115, 115>>
      [] n = "marketing_emails_opt_in" -> <<109, 97, 114, 107, 101, 116, 105, 110, 103, 95, 101, 109, 97, 105, 108, 115, 95, 111, 112, 116, 95, 105, 110>>
      [] n = "name" -> <<110, 97, 109, 101>>
      [] n = "password" -> <<112, 97, 115, 115, 119, 111, 114, 100>>
      [] n = "profession" -> <<112, 114, 111, 102, 101, 115, 115, 105, 111, 110>>
      [] n = "specialty" -> <<115, 112, 101, 99, 105, 97, 108, 116, 121>>
      [] n = "state" -> <<115, 116, 97, 116, 101>>
      [] n = "terms_of_service" -> <<116, 101, 114, 109, 115, 95, 111, 102, 95, 115, 101, 114, 118, 105, 99, 101>>
      [] n = "title" -> <<116, 105, 116, 108, 101>>
      [] n = "username" -> <<117, 115, 101, 114, 110, 97, 109, 101>>
      [] n = "year_of_birth" -> <<121, 101, 97, 114, 95, 111, 102, 95, 98, 105, 114, 116, 104>>

\* a < b for two code-point sequences: the first differing position decides,
\* and a proper prefix is smaller.
RECURSIVE SeqLess(_, _)
SeqLess(a, b) ==
    IF b = <<>> THEN FALSE
    ELSE IF a = <<>> THEN TRUE
    ELSE IF Head(a) # Head(b) THEN Head(a) < Head(b)
    ELSE SeqLess(Tail(a), Tail(b))

\* Python's a < b on str.
StrLess(a, b) == SeqLess(Chars(a), Chars(b))

\* set(xs)
ToSet(xs) == {xs[i] : i \in 1..Len(xs)}

\* x in xs
Contains(xs, x) == \E i \in 1..Len(xs) : xs[i] = x

\* Variant of Sorted: descending (sorted(..., reverse=True)).
RECURSIVE SortedDescending(_)
SortedDescending(S) ==
    IF S = {} THEN <<>>
    ELSE LET m == CHOOSE x \in S : \A y \in S \ {x} : StrLess(y, x)
         IN  <<m>> \o SortedDescending(S \ {m})

\* sorted(S) for a set S of str: ascending.
RECURSIVE Sorted(_)
Sorted(S) ==
    IF S = {} THEN <<>>
    ELSE LET m == CHOOSE x \in S : \A y \in S \ {x} : StrLess(x, y)
         IN  <<m>> \o Sorted(S \ {m})

\* list.remove(x): deletes the first element equal to x (the caller has
\* checked x in xs; without one list.remove raises ValueError).
RECURSIVE ListRemove(_, _)
ListRemove(xs, x) ==
    IF xs = <<>> THEN <<>>
    ELSE IF Head(xs) = x THEN Tail(xs)
    ELSE <<Head(xs)>> \o ListRemove(Tail(xs), x)

\* dict.get(key): the value, or None when the key is missing.
DictGet(d, k) == IF k \in DOMAIN d THEN d[k] ELSE None

\* d[k] = v on a dict.
DictSet(d, k, v) == [x \in (DOMAIN d) \cup {k} |-> IF x = k THEN v ELSE d[x]]

\* The empty dict.
EmptyDict == [x \in {} |-> None]

\* Truthiness of a str-or-None value.
Truthy(v) == v # None /\ v # ""

(***************************************************************************)
(* Configuration                                                           *)
(***************************************************************************)

\* The class attributes as the source writes them.
SourceExtraFields ==
    << "confirm_email", "first_name", "last_name", "city", "state", "country",
       "gender", "year_of_birth", "level_of_education", "company", "job_title",
       "title", "mailing_address", "goals", "honor_code", "terms_of_service",
       "profession", "specialty", "marketing_emails_opt_in" >>

SourceRegistrationExtraFields ==
    [ confirm_email |-> "hidden", level_of_education |-> "hidden",
      gender |-> "optional", year_of_birth |-> "required",
      mailing_address |-> "hidden", goals |-> "required",
      honor_code |-> "hidden", terms_of_service |-> "hidden",
      city |-> "required", country |-> "required", first_name |-> "required",
      last_name |-> "required", state |-> "required" ]

SourceRegistrationFieldOrder ==
    << "name", "honor_code", "first_name", "last_name", "username", "email",
       "confirm_email", "password", "city", "state", "country", "gender",
       "year_of_birth", "level_of_education", "specialty", "profession",
       "company", "title", "mailing_address", "goals", "terms_of_service" >>

\* The functions add_<name>_field that form_fields defines.
FormFieldHandlers ==
    { "level_of_education", "gender", "year_of_birth", "goals", "profession",
      "specialty", "company", "title", "job_title", "first_name", "last_name",
      "mailing_address", "state", "city", "honor_code", "country" }

\* The requirement levels of REGISTRATION_EXTRA_FIELDS.
Levels == {"required", "optional", "hidden"}

\* Bounds of the configurations explored besides the source's own: catalogs
\* and orders are built from FieldNames, which holds a name without a handler
\* (confirm_email), the name with a default level (honor_code) and the name
\* the compliance flag removes (year_of_birth).
FieldNames == {"confirm_email", "honor_code", "year_of_birth"}

MaxCatalog == 2

MaxOrder == 2

NumWorkers == 2

Workers == 1..NumWorkers

\* All sequences over S of length at most n.
SeqsUpTo(S, n) == UNION {[1..k -> S] : k \in 0..n}

\* Catalogs: names are unique (a catalog is a set of names written as a list).
Catalogs ==
    {c \in SeqsUpTo(FieldNames, MaxCatalog) :
        \A i, j \in 1..Len(c) : i # j => c[i] # c[j]}

\* Orders: any list of names, repeated names and names outside the catalog
\* included.
Orders == SeqsUpTo(FieldNames, MaxOrder)

\* Requirement maps: any dict from some of the names to a level.
RequirementMaps == UNION {[D -> Levels] : D \in SUBSET FieldNames}

(***************************************************************************)
(* RequiredFieldsView: the handlers' computations                          *)
(***************************************************************************)

\* Variant of FieldOrderObject: no fallback to EXTRA_FIELDS (line 93 dropped).
FieldOrderObjectNoFallback(order) == "REGISTRATION_FIELD_ORDER"

\* _get_field_order, lines 91-93: the list object field_order names.  A list
\* is falsy when empty; `a or b` is a when a is truthy and b otherwise.
FieldOrderObject(order) ==
    IF order # <<>> THEN "REGISTRATION_FIELD_ORDER"
    ELSE IF order # <<>> THEN "REGISTRATION_FIELD_ORDER"
    ELSE "EXTRA_FIELDS"

\* _get_field_order, line 98: set(EXTRA_FIELDS).difference(set(field_order)).
Difference(catalog, field_order) == ToSet(catalog) \ ToSet(field_order)

\* Variant of Reconcile: the missing names are not appended (line 101 dropped).
ReconcileWithoutExtend(catalog, field_order) == field_order

\* Variant of Reconcile: the list is rebuilt from the two sets,
\* sorted(set(field_order) | set(EXTRA_FIELDS)).
ReconcileRebuilt(catalog, field_order) ==
    Sorted(ToSet(field_order) \cup ToSet(catalog))

\* _get_field_order, lines 97-101: the value of the list field_order names
\* once the names it lacks have been appended to it.
Reconcile(catalog, field_order) ==
    IF ToSet(catalog) # ToSet(field_order)
    THEN field_order \o Sorted(Difference(catalog, field_order))
    ELSE field_order

\* _get_field_order as a whole: the list object it returns and that object's
\* value at the return.
GetFieldOrder(catalog, order) ==
    LET obj == FieldOrderObject(order)
        cur == IF obj = "EXTRA_FIELDS" THEN catalog ELSE order
    IN  [object |-> obj, value |-> Reconcile(catalog, cur)]

\* Variant of FieldsSetting: honor_code is set to "required" whatever its entry
\* (self._fields_setting["honor_code"] = "required").
FieldsSettingForced(requirements) ==
    DictSet(requirements, "honor_code", "required")

\* __init__, lines 107-110: a deep copy of REGISTRATION_EXTRA_FIELDS in which
\* honor_code gets the level "required" when it has no entry.
FieldsSetting(requirements) ==
    LET copied == IF requirements = EmptyDict THEN requirements ELSE requirements
    IN  DictSet(copied, "honor_code",
                IF "honor_code" \in DOMAIN copied THEN copied["honor_code"]
                ELSE "required")

\* __init__, lines 114-115: the value of the list ordered_extra_fields names
\* after the compliance step.
RemoveYearOfBirth(coppa, ordered) ==
    IF coppa /\ Contains(ordered, "year_of_birth")
    THEN ListRemove(ordered, "year_of_birth")
    ELSE ordered

\* __init__, line 122: the condition of the list comprehension.
IsRequired(fields_setting, field) == DictGet(fields_setting, field) = "required"

\* __init__, line 122: valid_fields.
ValidFields(ordered, fields_setting) ==
    SelectSeq(ordered, LAMBDA field : IsRequired(fields_setting, field))

\* getattr(form_fields, f'add_{field}_field', None) is not None.
HasHandler(field) == field \in FormFieldHandlers

\* The 'type' of the description a handler returns.  The handlers built on
\* _add_field_with_configurable_select_options are given with no
\* EXTRA_FIELD_OPTIONS configured.
FieldType(field, separate_honor_and_tos) ==
    CASE field \in {"level_of_education", "gender", "year_of_birth", "country"} -> "SELECT"
      [] field \in {"goals", "mailing_address"} -> "TEXTAREA"
      [] field = "honor_code" -> IF Truthy(separate_honor_and_tos) THEN "CHECKBOX" ELSE "TEXT"
      [] OTHER -> "TEXT"

\* The call of a field's handler, lines 134-138.
FieldHandler(field, fields_setting) ==
    [name |-> field,
     type |-> FieldType(field, DictGet(fields_setting, "terms_of_service"))]

\* response[field] = description on a dict kept as the list of its items in
\* insertion order: a key already present keeps its place.
ResponseSet(response, description) ==
    IF \E i \in 1..Len(response) : response[i].name = description.name
    THEN [i \in 1..Len(response) |->
            IF response[i].name = description.name THEN description ELSE response[i]]
    ELSE Append(response, description)

\* Variant of BuildResponse: the loop ends at the first field without a
\* handler (break in place of skipping it).
RECURSIVE BuildResponseUntilMissing(_, _, _)
BuildResponseUntilMissing(response, fields, fields_setting) ==
    IF fields = <<>> \/ ~HasHandler(Head(fields)) THEN response
    ELSE BuildResponseUntilMissing(
            ResponseSet(response, FieldHandler(Head(fields), fields_setting)),
            Tail(fields), fields_setting)

\* get, lines 130-138: the response dict after the loop over fields.
RECURSIVE BuildResponse(_, _, _)
BuildResponse(response, fields, fields_setting) ==
    IF fields = <<>> THEN response
    ELSE BuildResponse(
            IF HasHandler(Head(fields))
            THEN ResponseSet(response, FieldHandler(Head(fields), fields_setting))
            ELSE response,
            Tail(fields), fields_setting)

HTTP_400_BAD_REQUEST == 400

HTTP_200_OK == 200

\* Variant of ConfiguredIncorrectly: only the list of names is tested
\* (`or not response` dropped).
ConfiguredIncorrectlyByNames(valid_fields, response) == valid_fields = <<>>

\* get, line 140: the test that selects the error response.
ConfiguredIncorrectly(valid_fields, response) ==
    valid_fields = <<>> \/ response = <<>>

\* get, lines 140-152: the Response returned.  extended_profile is the site's
\* extended_profile_fields value, here its default.
MakeResponse(valid_fields, response) ==
    IF ConfiguredIncorrectly(valid_fields, response)
    THEN [status |-> HTTP_400_BAD_REQUEST,
          error_code |-> "required_fields_configured_incorrectly",
          fields |-> <<>>, extended_profile |-> <<>>]
    ELSE [status |-> HTTP_200_OK, error_code |-> None,
          fields |-> response, extended_profile |-> <<>>]

(***************************************************************************)
(* State                                                                   *)
(***************************************************************************)

VARIABLES
    EXTRA_FIELDS,               \* the class's list object, its current value
    REGISTRATION_FIELD_ORDER,   \* the class's list object, its current value
    REGISTRATION_EXTRA_FIELDS,  \* the class's dict object, its current value
    ENABLE_COPPA_COMPLIANCE,    \* settings.ENABLE_COPPA_COMPLIANCE
    views,                      \* per worker: the view instance of its request
    configured,                 \* the three configuration values as configured
    SavedCourse,                \* save_for_later: the rows of SavedCourse
    SavedProgram,               \* save_for_later: the rows of SavedProgram
    posted                      \* save_for_later: the last POST and its Response

vars == << EXTRA_FIELDS, REGISTRATION_FIELD_ORDER, REGISTRATION_EXTRA_FIELDS,
           ENABLE_COPPA_COMPLIANCE, views, configured, SavedCourse, SavedProgram, posted >>

\* A worker with no request.  Of a view instance: pc is the position of its
\* request; _fields_setting, valid_fields are its attributes; object is the
\* class list that field_order / ordered_extra_fields names; difference and
\* idx are locals of _get_field_order and of the list comprehension; response
\* is what get returned and error the exception that ended the request.
\* coppa, catalog_in, order_in, order_out and ordered record what the request
\* read: the flag at line 114, the two lists when _get_field_order was called,
\* the list it returned, and the list the comprehension of line 122 ran over.
NoView ==
    [pc |-> "idle", _fields_setting |-> EmptyDict, object |-> None,
     difference |-> {}, idx |-> 0, valid_fields |-> <<>>,
     response |-> None, error |-> None,
     coppa |-> FALSE, catalog_in |-> <<>>, order_in |-> <<>>,
     order_out |-> <<>>, ordered |-> <<>>]

\* No POST on a save-for-later endpoint yet.  Of a POST: view is the endpoint,
\* status and error_code (or result) are its Response, before the rows of the
\* two tables when it arrived.
NoPost ==
    [view |-> None, status |-> 0, error_code |-> None, result |-> None,
     before |-> [SavedCourse |-> {}, SavedProgram |-> {}]]

\* The value of a class list object.
Deref(object) ==
    IF object = "EXTRA_FIELDS" THEN EXTRA_FIELDS ELSE REGISTRATION_FIELD_ORDER

\* The configurations explored: every bounded one, and the source's own.
Configurations ==
    (Catalogs \X Orders \X RequirementMaps)
    \cup {<<SourceExtraFields, SourceRegistrationFieldOrder,
            SourceRegistrationExtraFields>>}

InitWith(configurations) ==
    /\ \E c \in configurations :
        /\ EXTRA_FIELDS = c[1]
        /\ REGISTRATION_FIELD_ORDER = c[2]
        /\ REGISTRATION_EXTRA_FIELDS = c[3]
        /\ configured = [EXTRA_FIELDS |-> c[1], REGISTRATION_FIELD_ORDER |-> c[2],
                         REGISTRATION_EXTRA_FIELDS |-> c[3]]
    /\ ENABLE_COPPA_COMPLIANCE \in BOOLEAN
    /\ views = [w \in Workers |-> NoView]
    /\ SavedCourse = {}
    /\ SavedProgram = {}
    /\ posted = NoPost

Init == InitWith(Configurations)

(***************************************************************************)
(* One request at a time: each handler runs to its end                     *)
(***************************************************************************)

\* The worker is between requests.
Free(w) == views[w].pc \in {"idle", "responded", "raised"}

\* RequiredFieldsView(): __init__ from its first line to its last.
Construct(w) ==
    /\ Free(w)
    /\ LET setting == FieldsSetting(REGISTRATION_EXTRA_FIELDS)
           order   == GetFieldOrder(EXTRA_FIELDS, REGISTRATION_FIELD_ORDER)
           ordered == RemoveYearOfBirth(ENABLE_COPPA_COMPLIANCE, order.value)
       IN  /\ EXTRA_FIELDS' =
                IF order.object = "EXTRA_FIELDS" THEN ordered ELSE EXTRA_FIELDS
           /\ REGISTRATION_FIELD_ORDER' =
                IF order.object = "REGISTRATION_FIELD_ORDER" THEN ordered
                ELSE REGISTRATION_FIELD_ORDER
           /\ views' = [views EXCEPT ![w] =
                [NoView EXCEPT
                    !.pc = "constructed",
                    !._fields_setting = setting,
                    !.object = order.object,
                    !.valid_fields = ValidFields(ordered, setting),
                    !.coppa = ENABLE_COPPA_COMPLIANCE,
                    !.catalog_in = EXTRA_FIELDS,
                    !.order_in = REGISTRATION_FIELD_ORDER,
                    !.order_out = order.value,
                    !.ordered = ordered]]
    /\ UNCHANGED << REGISTRATION_EXTRA_FIELDS, ENABLE_COPPA_COMPLIANCE, configured, SavedCourse, SavedProgram, posted >>

\* get, line 129: pdb.set_trace() stops the request at the debugger's prompt.
GetSetTrace(w) ==
    /\ views[w].pc = "constructed"
    /\ views' = [views EXCEPT ![w].pc = "pdb"]
    /\ UNCHANGED << EXTRA_FIELDS, REGISTRATION_FIELD_ORDER,
                    REGISTRATION_EXTRA_FIELDS, ENABLE_COPPA_COMPLIANCE, configured, SavedCourse, SavedProgram, posted >>

\* The debugger is told to continue: get runs lines 130-152 and returns.
GetContinue(w) ==
    /\ views[w].pc = "pdb"
    /\ LET v == views[w]
           response == BuildResponse(<<>>, v.valid_fields, v._fields_setting)
       IN  views' = [views EXCEPT
                ![w].pc = "responded",
                ![w].response = MakeResponse(v.valid_fields, response)]
    /\ UNCHANGED << EXTRA_FIELDS, REGISTRATION_FIELD_ORDER,
                    REGISTRATION_EXTRA_FIELDS, ENABLE_COPPA_COMPLIANCE, configured, SavedCourse, SavedProgram, posted >>

\* The debugger is told to quit, or its input is at end of file: pdb raises
\* BdbQuit out of get.
GetQuit(w) ==
    /\ views[w].pc = "pdb"
    /\ views' = [views EXCEPT ![w].pc = "raised", ![w].error = "BdbQuit"]
    /\ UNCHANGED << EXTRA_FIELDS, REGISTRATION_FIELD_ORDER,
                    REGISTRATION_EXTRA_FIELDS, ENABLE_COPPA_COMPLIANCE, configured, SavedCourse, SavedProgram, posted >>

\* The setting is changed between two requests.
SetCoppaCompliance ==
    /\ \A w \in Workers : Free(w)
    /\ ENABLE_COPPA_COMPLIANCE' = ~ENABLE_COPPA_COMPLIANCE
    /\ UNCHANGED << EXTRA_FIELDS, REGISTRATION_FIELD_ORDER,
                    REGISTRATION_EXTRA_FIELDS, views, configured, SavedCourse, SavedProgram, posted >>

Next ==
    \/ Construct(1)
    \/ GetSetTrace(1)
    \/ GetContinue(1)
    \/ GetQuit(1)
    \/ SetCoppaCompliance

Spec == Init /\ [][Next]_vars

(***************************************************************************)
(* Requests served by several threads of one process: a thread may be      *)
(* switched between any two statements of __init__ and _get_field_order,   *)
(* and between two elements of the list comprehension; a single operation  *)
(* on a list (set(), in, extend, remove) is indivisible.                   *)
(***************************************************************************)

Shared == << REGISTRATION_EXTRA_FIELDS, ENABLE_COPPA_COMPLIANCE, configured, SavedCourse, SavedProgram, posted >>

\* __init__, lines 106-110: the view's own copy of the requirement map.
InitFieldsSetting(w) ==
    /\ Free(w)
    /\ views' = [views EXCEPT ![w] =
            [NoView EXCEPT
                !.pc = "get_field_order",
                !._fields_setting = FieldsSetting(REGISTRATION_EXTRA_FIELDS)]]
    /\ UNCHANGED << EXTRA_FIELDS, REGISTRATION_FIELD_ORDER, Shared >>

\* _get_field_order, lines 91-93: field_order names one of the class lists.
ReadFieldOrder(w) ==
    /\ views[w].pc = "get_field_order"
    /\ views' = [views EXCEPT
            ![w].pc = "compare",
            ![w].object = FieldOrderObject(REGISTRATION_FIELD_ORDER),
            ![w].catalog_in = EXTRA_FIELDS,
            ![w].order_in = REGISTRATION_FIELD_ORDER]
    /\ UNCHANGED << EXTRA_FIELDS, REGISTRATION_FIELD_ORDER, Shared >>

\* _get_field_order, line 97, and line 103 when the sets are equal.
CompareSets(w) ==
    /\ views[w].pc = "compare"
    /\ views' = [views EXCEPT ![w] =
            IF ToSet(EXTRA_FIELDS) # ToSet(Deref(@.object))
            THEN [@ EXCEPT !.pc = "difference"]
            ELSE [@ EXCEPT !.pc = "coppa", !.order_out = Deref(@.object)]]
    /\ UNCHANGED << EXTRA_FIELDS, REGISTRATION_FIELD_ORDER, Shared >>

\* _get_field_order, line 98.
ComputeDifference(w) ==
    /\ views[w].pc = "difference"
    /\ views' = [views EXCEPT
            ![w].pc = "extend",
            ![w].difference = Difference(EXTRA_FIELDS, Deref(views[w].object))]
    /\ UNCHANGED << EXTRA_FIELDS, REGISTRATION_FIELD_ORDER, Shared >>

\* _get_field_order, lines 101-103: field_order.extend(sorted(difference)).
Extend(w) ==
    /\ views[w].pc = "extend"
    /\ LET extended == Deref(views[w].object) \o Sorted(views[w].difference)
       IN  /\ EXTRA_FIELDS' =
                IF views[w].object = "EXTRA_FIELDS" THEN extended ELSE EXTRA_FIELDS
           /\ REGISTRATION_FIELD_ORDER' =
                IF views[w].object = "REGISTRATION_FIELD_ORDER" THEN extended
                ELSE REGISTRATION_FIELD_ORDER
           /\ views' = [views EXCEPT ![w].pc = "coppa", ![w].order_out = extended]
    /\ UNCHANGED Shared

\* __init__, line 114.
TestCoppa(w) ==
    /\ views[w].pc = "coppa"
    /\ views' = [views EXCEPT
            ![w].coppa = ENABLE_COPPA_COMPLIANCE,
            ![w].idx = 1,
            ![w].pc = IF /\ ENABLE_COPPA_COMPLIANCE
                         /\ Contains(Deref(views[w].object), "year_of_birth")
                      THEN "remove" ELSE "filter"]
    /\ UNCHANGED << EXTRA_FIELDS, REGISTRATION_FIELD_ORDER, Shared >>

\* __init__, line 115: ordered_extra_fields.remove('year_of_birth'), which
\* raises ValueError when the list no longer holds the name.
Remove(w) ==
    /\ views[w].pc = "remove"
    /\ IF Contains(Deref(views[w].object), "year_of_birth")
       THEN LET removed == ListRemove(Deref(views[w].object), "year_of_birth")
            IN  /\ EXTRA_FIELDS' =
                     IF views[w].object = "EXTRA_FIELDS" THEN removed ELSE EXTRA_FIELDS
                /\ REGISTRATION_FIELD_ORDER' =
                     IF views[w].object = "REGISTRATION_FIELD_ORDER" THEN removed
                     ELSE REGISTRATION_FIELD_ORDER
                /\ views' = [views EXCEPT ![w].pc = "filter"]
       ELSE /\ views' = [views EXCEPT ![w].pc = "raised", ![w].error = "ValueError"]
            /\ UNCHANGED << EXTRA_FIELDS, REGISTRATION_FIELD_ORDER >>
    /\ UNCHANGED Shared

\* __init__, line 122: one turn of the list comprehension, which reads the
\* list by index and ends when the index is past the list's end.
Filter(w) ==
    /\ views[w].pc = "filter"
    /\ LET v == views[w]
           list == Deref(v.object)
       IN  views' = [views EXCEPT ![w] =
                IF v.idx <= Len(list)
                THEN [v EXCEPT
                        !.idx = v.idx + 1,
                        !.ordered = Append(v.ordered, list[v.idx]),
                        !.valid_fields =
                            IF IsRequired(v._fields_setting, list[v.idx])
                            THEN Append(v.valid_fields, list[v.idx])
                            ELSE v.valid_fields]
                ELSE [v EXCEPT !.pc = "constructed"]]
    /\ UNCHANGED << EXTRA_FIELDS, REGISTRATION_FIELD_ORDER, Shared >>

\* The process runs the source's own configuration; the setting is fixed.
InitConc ==
    InitWith({<<SourceExtraFields, SourceRegistrationFieldOrder,
                SourceRegistrationExtraFields>>})

NextConc ==
    \E w \in Workers :
        \/ InitFieldsSetting(w)
        \/ ReadFieldOrder(w)
        \/ CompareSets(w)
        \/ ComputeDifference(w)
        \/ Extend(w)
        \/ TestCoppa(w)
        \/ Remove(w)
        \/ Filter(w)
        \/ GetSetTrace(w)
        \/ GetContinue(w)
        \/ GetQuit(w)

SpecConc == InitConc /\ [][NextConc]_vars

(***************************************************************************)
(* save_for_later/api/v1/views.py: the two POST endpoints.  What a POST    *)
(* carries and what the collaborators answer are drawn from small sets.    *)
(***************************************************************************)

\* request.user.id
UserIds == {"user_1", "user_2"}

\* data.get('email'): a well-formed address, a malformed one, or none.
Emails == {"test@edx.org", "not-an-email", None}

\* get_email_validation_error(email) is truthy (line 68, line 127).
EmailValidationError(email) == email # "test@edx.org"

\* data.get('course_id'): the id of a course with an overview, a well-formed
\* id without one, a malformed id, or none.
CourseIds == {"course-v1:edX+DemoX+2021", "course-v1:edX+Gone+2021", "DemoX", None}

\* CourseKey.from_string(course_id) raises InvalidKeyError (lines 72, 74).
InvalidKey(course_id) ==
    course_id \notin {"course-v1:edX+DemoX+2021", "course-v1:edX+Gone+2021"}

\* CourseOverview.get_from_id(course_key) raises DoesNotExist (lines 73, 76).
CourseDoesNotExist(course_id) == course_id # "course-v1:edX+DemoX+2021"

\* data.get('program_uuid'): the uuid of a program of the catalog, a uuid of
\* none, the empty string, or none.
ProgramUuids ==
    {"587f6abe-bfa4-4125-9fbe-4789bf3f97f1", "00000000-0000-0000-0000-000000000000",
     "", None}

\* get_programs(uuid=program_uuid) is truthy (lines 133, 139).
ProgramFound(program_uuid) == program_uuid = "587f6abe-bfa4-4125-9fbe-4789bf3f97f1"

\* objects.update_or_create(**row) with no defaults: the row matching every
\* field is saved again, or the row is created.
UpdateOrCreate(rows, row) == rows \cup {row}

\* Response({'error_code': error_code}, status=status)
ErrorResponse(view, status, error_code) ==
    [view |-> view, status |-> status, error_code |-> error_code, result |-> None,
     before |-> [SavedCourse |-> SavedCourse, SavedProgram |-> SavedProgram]]

\* The Response after send_email: lines 88-91 and 144-147.
SentResponse(view, sent) ==
    IF sent
    THEN [view |-> view, status |-> 200, error_code |-> None, result |-> "success",
          before |-> [SavedCourse |-> SavedCourse, SavedProgram |-> SavedProgram]]
    ELSE ErrorResponse(view, 400, "email-not-send")

SaveFrame ==
    << EXTRA_FIELDS, REGISTRATION_FIELD_ORDER, REGISTRATION_EXTRA_FIELDS,
       ENABLE_COPPA_COMPLIANCE, views, configured >>

\* CourseSaveForLaterApiView.post, lines 60-91.
CourseSaveForLaterPost ==
    \E limited \in BOOLEAN, user_id \in UserIds, email \in Emails,
       course_id \in CourseIds, sent \in BOOLEAN :
        /\ IF limited
           THEN /\ posted' = ErrorResponse("course", 403, "rate-limited")
                /\ UNCHANGED SavedCourse
           ELSE IF EmailValidationError(email)
           THEN /\ posted' = ErrorResponse("course", 400, "incorrect-email")
                /\ UNCHANGED SavedCourse
           ELSE IF InvalidKey(course_id)
           THEN /\ posted' = ErrorResponse("course", 400, "invalid-course-key")
                /\ UNCHANGED SavedCourse
           ELSE IF CourseDoesNotExist(course_id)
           THEN /\ posted' = ErrorResponse("course", 404, "course-not-found")
                /\ UNCHANGED SavedCourse
           ELSE /\ SavedCourse' = UpdateOrCreate(SavedCourse,
                        [user_id |-> user_id, email |-> email, course_id |-> course_id])
                /\ posted' = SentResponse("course", sent)
        /\ UNCHANGED << SavedProgram, SaveFrame >>

\* ProgramSaveForLaterApiView.post, lines 119-149.
ProgramSaveForLaterPost ==
    \E limited \in BOOLEAN, user_id \in UserIds, email \in Emails,
       program_uuid \in ProgramUuids, sent \in BOOLEAN :
        /\ IF limited
           THEN /\ posted' = ErrorResponse("program", 403, "rate-limited")
                /\ UNCHANGED SavedProgram
           ELSE IF EmailValidationError(email)
           THEN /\ posted' = ErrorResponse("program", 400, "incorrect-email")
                /\ UNCHANGED SavedProgram
           ELSE IF ~Truthy(program_uuid)
           THEN /\ posted' = ErrorResponse("program", 400, "program-uuid-missing")
                /\ UNCHANGED SavedProgram
           ELSE /\ SavedProgram' = UpdateOrCreate(SavedProgram,
                        [user_id |-> user_id, email |-> email,
                         program_uuid |-> program_uuid])
                /\ posted' = IF ProgramFound(program_uuid)
                             THEN SentResponse("program", sent)
                             ELSE ErrorResponse("program", 404, "program-not-found")
        /\ UNCHANGED << SavedCourse, SaveFrame >>

InitSave ==
    InitWith({<<SourceExtraFields, SourceRegistrationFieldOrder,
                SourceRegistrationExtraFields>>})

NextSave ==
    \/ CourseSaveForLaterPost
    \/ ProgramSaveForLaterPost

SpecSave == InitSave /\ [][NextSave]_vars

(***************************************************************************)
(* Properties                                                              *)
(***************************************************************************)

\* The view instances whose __init__ has returned.
Built(v) ==
    \/ v.pc \in {"constructed", "pdb", "responded"}
    \/ v.pc = "raised" /\ v.error = "BdbQuit"

\* The number of places of xs that hold x.
Count(xs, x) == Cardinality({i \in 1..Len(xs) : xs[i] = x})

\* xs holds every element of ys exactly once and nothing else.
IsPermutationOf(xs, ys) ==
    /\ Len(xs) = Len(ys)
    /\ \A i \in 1..Len(xs) : Count(xs, xs[i]) = Count(ys, xs[i])

NoRepeats(xs) == \A i, j \in 1..Len(xs) : i # j => xs[i] # xs[j]

\* xs is strictly ascending in Python's order on str.
Ascending(xs) == \A i, j \in 1..Len(xs) : i < j => StrLess(xs[i], xs[j])

\* C1 as claimed: whatever the catalog and the configured order, the list
\* _get_field_order returns is a permutation of the catalog.
C1_OrderIsPermutationOfCatalog ==
    \A w \in Workers :
        Built(views[w]) => IsPermutationOf(views[w].order_out, views[w].catalog_in)

\* C1: the list _get_field_order returns holds every name of the catalog and
\* beyond them only entries of the configured order; it is a permutation of
\* the catalog exactly when the configured order holds no repeated name and
\* no name absent from the catalog.
C1_OrderCoversCatalog ==
    \A w \in Workers :
        LET v == views[w] IN
        Built(v) =>
            /\ ToSet(v.order_out) = ToSet(v.catalog_in) \cup ToSet(v.order_in)
            /\ IsPermutationOf(v.order_out, v.catalog_in)
                 <=> (/\ NoRepeats(v.order_in)
                      /\ ToSet(v.order_in) \subseteq ToSet(v.catalog_in))

\* C1's case: an order without repeats inside the catalog that lacks some of
\* the catalog's names has been reconciled.
C1_Witness ==
    \E w \in Workers :
        LET v == views[w] IN
        /\ Built(v)
        /\ v.order_in # <<>>
        /\ NoRepeats(v.order_in)
        /\ ToSet(v.order_in) \subseteq ToSet(v.catalog_in)
        /\ ToSet(v.order_in) # ToSet(v.catalog_in)
        /\ IsPermutationOf(v.order_out, v.catalog_in)

\* C7: when the configured order has the same set of names as the catalog,
\* _get_field_order returns the configured order as it is, and the configured
\* list is left as it was.
C7_EqualSetsReturnOrderUnchanged ==
    \A w \in Workers :
        LET v == views[w] IN
        (Built(v) /\ ToSet(v.order_in) = ToSet(v.catalog_in))
            => v.order_out = v.order_in

\* C7's case: an order that lists the catalog's names in another sequence
\* than the catalog does has been reconciled.
C7_Witness ==
    \E w \in Workers :
        LET v == views[w] IN
        /\ Built(v)
        /\ ToSet(v.order_in) = ToSet(v.catalog_in)
        /\ v.order_in # v.catalog_in
        /\ Len(v.order_in) > 1
        /\ v.order_out = v.order_in

\* C8: when the configured order is empty, _get_field_order returns the
\* catalog, in the catalog's own sequence.
C8_EmptyOrderReturnsCatalog ==
    \A w \in Workers :
        LET v == views[w] IN
        (Built(v) /\ v.order_in = <<>>) => v.order_out = v.catalog_in

\* C8's case: an empty order was reconciled against a catalog whose sequence
\* is not the sorted one.
C8_Witness ==
    \E w \in Workers :
        LET v == views[w] IN
        /\ Built(v)
        /\ v.order_in = <<>>
        /\ Len(v.catalog_in) > 1
        /\ ~Ascending(v.catalog_in)
        /\ v.order_out = v.catalog_in

\* The list out is the list order followed by the names of missing, ascending.
OrderThenMissing(out, order, missing) ==
    /\ Len(out) = Len(order) + Cardinality(missing)
    /\ SubSeq(out, 1, Len(order)) = order
    /\ LET rest == SubSeq(out, Len(order) + 1, Len(out))
       IN  ToSet(rest) = missing /\ Ascending(rest)

\* C9 as claimed: whenever the configured order's set of names differs from
\* the catalog's, the result is the configured order followed by the catalog
\* names it lacks, sorted ascending.
C9_MismatchAppendsSortedMissing ==
    \A w \in Workers :
        LET v == views[w] IN
        (Built(v) /\ ToSet(v.order_in) # ToSet(v.catalog_in))
            => OrderThenMissing(v.order_out, v.order_in,
                                ToSet(v.catalog_in) \ ToSet(v.order_in))

\* C9: whenever the configured order is not empty and its set of names
\* differs from the catalog's, the result is the configured order followed by
\* the catalog names it lacks, sorted ascending.
C9_NonEmptyMismatchAppendsSortedMissing ==
    \A w \in Workers :
        LET v == views[w] IN
        (Built(v) /\ v.order_in # <<>> /\ ToSet(v.order_in) # ToSet(v.catalog_in))
            => OrderThenMissing(v.order_out, v.order_in,
                                ToSet(v.catalog_in) \ ToSet(v.order_in))

\* C9's case: a non-empty order lacking two names of the catalog, which the
\* catalog lists in descending sequence, has been reconciled.
C9_Witness ==
    \E w \in Workers :
        LET v == views[w]
            missing == ToSet(v.catalog_in) \ ToSet(v.order_in)
        IN  /\ Built(v)
            /\ v.order_in # <<>>
            /\ Cardinality(missing) > 1
            /\ \E i, j \in 1..Len(v.catalog_in) :
                    /\ i < j
                    /\ {v.catalog_in[i], v.catalog_in[j]} \subseteq missing
                    /\ StrLess(v.catalog_in[j], v.catalog_in[i])
            /\ Len(v.order_out) = Len(v.order_in) + Cardinality(missing)

\* The level the filter of line 122 goes by, read off REGISTRATION_EXTRA_FIELDS:
\* an entry "required", or no entry at all in the case of honor_code.
RequiredBy(requirements, name) ==
    \/ name \in DOMAIN requirements /\ requirements[name] = "required"
    \/ name = "honor_code" /\ name \notin DOMAIN requirements

\* The places of xs whose name is kept, in sequence.
RECURSIVE Keep(_, _)
Keep(xs, kept) ==
    IF xs = <<>> THEN <<>>
    ELSE (IF Head(xs) \in kept THEN <<Head(xs)>> ELSE <<>>) \o Keep(Tail(xs), kept)

\* C3: valid_fields is the order the filter was given (the reconciled order,
\* less one year_of_birth under the compliance flag) with exactly the names
\* kept that the requirement map marks "required", honor_code counting as
\* "required" only when the map has no entry for it.
C3_ValidFieldsAreTheRequiredNames ==
    \A w \in Workers :
        LET v == views[w] IN
        Built(v) =>
            /\ v.valid_fields =
                 Keep(v.ordered,
                      {n \in ToSet(v.ordered) : RequiredBy(REGISTRATION_EXTRA_FIELDS, n)})
            /\ ~v.coppa => v.ordered = v.order_out

\* C3's case: the filter ran over an order holding honor_code with an entry
\* other than "required", a name with no entry, and a name marked "required".
C3_Witness ==
    \E w \in Workers :
        LET v == views[w] IN
        /\ Built(v)
        /\ Contains(v.ordered, "honor_code")
        /\ DictGet(REGISTRATION_EXTRA_FIELDS, "honor_code") \in {"hidden", "optional"}
        /\ \E n \in ToSet(v.ordered) : n \notin DOMAIN REGISTRATION_EXTRA_FIELDS
        /\ v.valid_fields # <<>>
        /\ Len(v.valid_fields) < Len(v.ordered)

\* C4 as claimed: a view built with the compliance flag set never has
\* year_of_birth in valid_fields.
C4_CoppaExcludesYearOfBirth ==
    \A w \in Workers :
        LET v == views[w] IN
        (Built(v) /\ v.coppa) => ~Contains(v.valid_fields, "year_of_birth")

\* C5 as claimed: the three configuration values stay as configured.
C5_ConfigurationUnchanged ==
    /\ EXTRA_FIELDS = configured.EXTRA_FIELDS
    /\ REGISTRATION_FIELD_ORDER = configured.REGISTRATION_FIELD_ORDER
    /\ REGISTRATION_EXTRA_FIELDS = configured.REGISTRATION_EXTRA_FIELDS

\* Some required name has a handler.
SomeHandler(valid_fields) ==
    \E i \in 1..Len(valid_fields) : valid_fields[i] \in FormFieldHandlers

\* C2: a GET that returns answers with the error
\* required_fields_configured_incorrectly exactly when valid_fields is empty
\* or none of its names has a handler, and otherwise with a success whose
\* 'fields' is not empty.
C2_ErrorIffNothingResolved ==
    \A w \in Workers :
        LET v == views[w] IN
        v.pc = "responded" =>
            IF v.valid_fields = <<>> \/ ~SomeHandler(v.valid_fields)
            THEN /\ v.response.status = HTTP_400_BAD_REQUEST
                 /\ v.response.error_code = "required_fields_configured_incorrectly"
            ELSE /\ v.response.status = HTTP_200_OK
                 /\ v.response.fields # <<>>

\* C2's case: a GET has answered for a view whose required names are not
\* empty and all lack a handler.
C2_Witness ==
    \E w \in Workers :
        LET v == views[w] IN
        /\ v.pc = "responded"
        /\ v.valid_fields # <<>>
        /\ ~SomeHandler(v.valid_fields)
        /\ v.response.status = HTTP_400_BAD_REQUEST

\* The place of the first occurrence of x in xs.
FirstIndex(xs, x) == CHOOSE i \in 1..Len(xs) : xs[i] = x /\ \A j \in 1..(i - 1) : xs[j] # x

\* C10: the keys of 'fields' in a success response are the required names
\* that have a handler, each once, in the sequence in which valid_fields
\* first lists them; and a GET succeeds as soon as one required name has a
\* handler, whatever names beside it have none.
C10_FieldsAreTheHandledNames ==
    \A w \in Workers :
        LET v == views[w]
            keys == IF v.pc = "responded"
                    THEN [i \in 1..Len(v.response.fields) |-> v.response.fields[i].name]
                    ELSE <<>>
        IN  v.pc = "responded" =>
                /\ SomeHandler(v.valid_fields) => v.response.status = HTTP_200_OK
                /\ v.response.status = HTTP_200_OK =>
                    /\ ToSet(keys) = ToSet(v.valid_fields) \cap FormFieldHandlers
                    /\ NoRepeats(keys)
                    /\ \A i, j \in 1..Len(keys) :
                          i < j => FirstIndex(v.valid_fields, keys[i])
                                     < FirstIndex(v.valid_fields, keys[j])

\* C10's case: a GET succeeded with two fields although a required name
\* listed before them has no handler.
C10_Witness ==
    \E w \in Workers :
        LET v == views[w] IN
        /\ v.pc = "responded"
        /\ v.response.status = HTTP_200_OK
        /\ Len(v.response.fields) > 1
        /\ v.valid_fields # <<>>
        /\ Head(v.valid_fields) \notin FormFieldHandlers

\* valid_fields of a view built alone on a configuration.
ValidFieldsAlone(configuration, coppa) ==
    ValidFields(
        RemoveYearOfBirth(coppa,
            GetFieldOrder(configuration.EXTRA_FIELDS,
                          configuration.REGISTRATION_FIELD_ORDER).value),
        FieldsSetting(configuration.REGISTRATION_EXTRA_FIELDS))

\* C6 as claimed: no construction raises, and every view built has the
\* valid_fields that a view built alone on the configured values with the
\* same compliance flag has.
C6_InvocationsIndependent ==
    \A w \in Workers :
        LET v == views[w] IN
        /\ v.error # "ValueError"
        /\ Built(v) => v.valid_fields = ValidFieldsAlone(configured, v.coppa)

\* C11 as claimed: a GET never stops to wait for input or for an event from
\* outside, and never ends otherwise than with one of its two responses:
\* no request stands at the debugger's prompt, and none has been ended by
\* the debugger's BdbQuit.
C11_GetCompletesWithoutWaiting ==
    \A w \in Workers :
        /\ views[w].pc # "pdb"
        /\ ~(views[w].pc = "raised" /\ views[w].error = "BdbQuit")

\* The error codes of a POST refused before the row is to be saved.
Refusals ==
    {"rate-limited", "incorrect-email", "invalid-course-key", "course-not-found",
     "program-uuid-missing", "program-not-found"}

\* C12 as claimed: a POST answered with rate-limited, incorrect-email,
\* invalid-course-key, course-not-found, program-uuid-missing or
\* program-not-found has left the rows of SavedCourse and SavedProgram as
\* they were when it arrived.
C12_RefusedPostLeavesRowsUnchanged ==
    posted.error_code \in Refusals =>
        /\ SavedCourse = posted.before.SavedCourse
        /\ SavedProgram = posted.before.SavedProgram

====
